---- MODULE Spec2Model ----
(***************************************************************************)
(* Model of the symptom-triage / appointment-booking webhook (src/main.py). *)
(*                                                                         *)
(* The store (Firestore) holds the doctors, the patients, the slots        *)
(* (collection doctor_availability) and the booking records (collection    *)
(* appointments).  Several requests are handled concurrently; every        *)
(* request is one turn of webhook(), split at its accesses to the store.   *)
(***************************************************************************)
EXTENDS Integers, Sequences, FiniteSets, TLC

VARIABLES
    is_booked,          \* doctor_availability: slot id -> its is_booked flag
    appointments,       \* appointments collection, in order of creation
    wins,               \* history: slot id -> number of book_appointment calls that returned True
    pc,                 \* per request: position in webhook()
    path,               \* per request: history, the handling path the turn entered
    session_params,     \* per request: sessionInfo.parameters of the turn
    formatted_dob,      \* per request: result of _get_date_string_from_dob_param
    user_email,         \* per request: result of find_user_email
    book_state,         \* per request: history of the book_appointment call of the turn
    appointment_booked, \* per request: result of book_appointment
    email_sent,         \* per request: result of send_confirmation_email
    response_text,      \* per request: the reply chosen so far
    calls,              \* per request: history, the components invoked in this turn
    symptom_result,     \* per request: outcome of the triage classifier
    status,             \* per request: the message of check_insurance_and_cost
    resolver,           \* per request: locals of get_available_doctors
    response            \* per request: the HTTP response of the turn

vars == <<is_booked, appointments, wins, pc, path, session_params, formatted_dob,
          user_email, book_state, appointment_booked, email_sent,
          response_text, calls, symptom_result, status, resolver, response>>

store == <<is_booked, appointments>>

None == "None"

\* The request handlers that may run at the same time.
Reqs == {"r1", "r2"}

(***************************************************************************)
(* Store contents that this system only reads.                             *)
(***************************************************************************)
\* Documents of doctor_availability.
SlotIds == {"s1", "s2", "s3", "s4", "s5", "s6"}
\* A document id that is not in doctor_availability.
MissingId == "s9"

NoTime == [rep |-> "none", t |-> 0]
\* A time_slot as it comes back from the caller: JSON carries it as a string.
TimeString(t) == [rep |-> "str", t |-> t]
\* A time_slot as the store returns it (a timestamp object).
TimeObject(t) == [rep |-> "time", t |-> t]

\* Time is counted in hours from a Monday 00:00.
\* Doctor d1 has s1, a Saturday 10:00 slot, s2, the Thursday 10:00 slot
\* before it, and s5, the Tuesday 10:00 slot after it; doctor d3 has s3 and
\* s4, the Saturday 14:00 and the Sunday 10:00 slot of the same weekend;
\* doctor d2 has s6, a slot 30 days after the Wednesday 09:00 of that week.
SlotTime(s) ==
    CASE s = "s1" -> 130
      [] s = "s2" -> 82
      [] s = "s3" -> 134
      [] s = "s4" -> 154
      [] s = "s5" -> 178
      [] s = "s6" -> 777
SlotDoctor(s) ==
    IF s \in {"s3", "s4"} THEN "d3" ELSE IF s = "s6" THEN "d2" ELSE "d1"

\* The doctors collection, in the order the store enumerates it.
Doctors == <<"d1", "d2", "d3">>
\* A name, like every text that is searched, is the sequence of its words.
DoctorName(d) ==
    IF d = "d1" THEN <<"Jane", "Doe">>
    ELSE IF d = "d2" THEN <<"John", "Smith">>
    ELSE <<"Amy", "Roe">>
DoctorSpecialty(d) == IF d = "d3" THEN "specialist" ELSE "gp"
AcceptedInsurances(d) == IF d = "d1" THEN {"acme"} ELSE {}

\* The patients collection.
Patients ==
    { [firstName |-> "Ann", lastName |-> <<"Lee">>, dob |-> <<1990, 3, 15>>,
       email |-> "ann@mail"] }


(***************************************************************************)
(* Values of the session parameters.                                       *)
(***************************************************************************)
\* A Slot Candidate as get_available_doctors builds it: the slot document
\* plus its id and the doctor's name.
Candidate(id, name, time_slot) == [id |-> id, name |-> name, time_slot |-> time_slot]
\* null or {} : a falsy selected_doctor_object.
NoCandidate == Candidate(None, <<>>, NoTime)
\* The snapshot of slot s after the round trip through the caller.
Snapshot(s) == Candidate(s, DoctorName(SlotDoctor(s)), TimeString(SlotTime(s)))

\* A date of birth parameter: a string in one of the forms strptime is tried
\* with, a {year, month, day} structure, or nothing.
Dob(kind, form, y, m, d) == [kind |-> kind, form |-> form, y |-> y, m |-> m, d |-> d]
NoDob == Dob("none", "none", 0, 0, 0)
\* A failed normalisation (None).
NoDate == <<>>
\* A missing user_name (None or "").
NoName == <<>>
\* symptom_duration_days: a number, a text that is no number, or null.
Duration(kind, n) == [kind |-> kind, n |-> n]

Params(bc, cand, name, dob, choice, provider, list, symptoms, duration) ==
    [booking_confirmed |-> bc, selected_doctor_object |-> cand,
     user_name |-> name, dob |-> dob, selected_doctor_name |-> choice,
     insurance_provider |-> provider, doctor_info_list |-> list,
     symptoms_list |-> symptoms, symptom_duration_days |-> duration]

\* What the handler reads when the request carries no parameter at all
\* (the defaults of session_params.get).
DefaultParams ==
    Params(FALSE, NoCandidate, NoName, NoDob, <<>>, None, <<>>, <<>>, Duration("int", 0))

Ann == <<"Ann", "Lee">>
Zed == <<"Zed">>
GoodDob == Dob("str", "mdy", 1990, 3, 15)
BadDob == Dob("str", "other", 0, 0, 0)
NoSuchDayDob == Dob("str", "mdy", 1990, 2, 30)
IsoDob == Dob("str", "iso", 1990, 3, 15)
DictDob == Dob("dict", "numeric", 1990, 3, 15)
BadDictDob == Dob("dict", "text", 0, 0, 0)

\* The candidates a caller sends back: the snapshots of two slots, one of a
\* slot that is not in the store, one without id, one without time_slot.
SentCandidates ==
    { Snapshot(s) : s \in {"s1", "s2"} }
    \cup { Candidate(MissingId, DoctorName("d1"), TimeString(200)),
           Candidate(None, DoctorName("d1"), TimeString(130)),
           Candidate("s1", DoctorName("d1"), NoTime) }

BookingParams(cand, name, dob) ==
    [DefaultParams EXCEPT !.booking_confirmed = TRUE,
                          !.selected_doctor_object = cand,
                          !.user_name = name, !.dob = dob]

BookingRequests ==
    { BookingParams(c, Ann, GoodDob) : c \in SentCandidates }
    \cup { BookingParams(Snapshot("s1"), Ann, d) :
               d \in {BadDob, NoSuchDayDob, BadDictDob, NoDob} }
    \cup { BookingParams(Snapshot("s1"), Zed, GoodDob),
           BookingParams(Snapshot("s1"), NoName, GoodDob),
           BookingParams(NoCandidate, Ann, GoodDob),
           BookingParams(Candidate("s1", DoctorName("d1"), NoTime), Ann, BadDob) }

(***************************************************************************)
(* _get_date_string_from_dob_param                                         *)
(***************************************************************************)
IsLeap(y) == (y % 4 = 0 /\ y % 100 # 0) \/ y % 400 = 0

DaysInMonth(y, m) ==
    IF m \in {4, 6, 9, 11} THEN 30
    ELSE IF m = 2 THEN (IF IsLeap(y) THEN 29 ELSE 28)
    ELSE 31

\* datetime.strptime raises ValueError unless the text has the form asked for
\* and names a day of the calendar.
StrptimeOk(dob, form) ==
    /\ dob.form = form
    /\ dob.y \in 1..9999
    /\ dob.m \in 1..12
    /\ dob.d \in 1..DaysInMonth(dob.y, dob.m)

\* Faulty variant: a string is taken apart without strptime's checks.
get_date_string_from_dob_param_Unchecked(dob) ==
    IF dob.kind = "str" /\ dob.form \in {"mdy", "iso"} THEN <<dob.y, dob.m, dob.d>>
    ELSE IF dob.kind = "dict" /\ dob.form = "numeric" THEN <<dob.y, dob.m, dob.d>>
    ELSE NoDate
\* The string "YYYY-MM-DD" is modelled by the triple it is formatted from.
get_date_string_from_dob_param(dob) ==
    IF dob.kind = "str"
    THEN IF StrptimeOk(dob, "mdy") THEN <<dob.y, dob.m, dob.d>>
         ELSE IF StrptimeOk(dob, "iso") THEN <<dob.y, dob.m, dob.d>>
         ELSE NoDate
    ELSE IF dob.kind = "dict"
    THEN \* int() of a field that is not a number raises; no range is checked
         IF dob.form = "numeric" THEN <<dob.y, dob.m, dob.d>> ELSE NoDate
    ELSE NoDate

(***************************************************************************)
(* find_user_email                                                         *)
(***************************************************************************)
\* user_name.split(' ', 1): the first word and the rest.
FirstName(user_name) == Head(user_name)
LastName(user_name) == Tail(user_name)

\* The email of the patient whose three fields match exactly, None when no
\* patient matches or the query fails.
find_user_email(first_name, last_name, dob, fault) ==
    LET found == { pt \in Patients : /\ pt.firstName = first_name
                                      /\ pt.lastName = last_name
                                      /\ pt.dob = dob }
    IN  IF fault \/ found = {} THEN None
        ELSE (CHOOSE pt \in found : TRUE).email

(***************************************************************************)
(* Responses                                                               *)
(***************************************************************************)
\* A response: the HTTP status, the reply text and the update of the session
\* parameters: the names set to null and the values of the others.
Response(code, text, nulls, values) ==
    [status |-> code, text |-> text, nulls |-> nulls, values |-> values]
NoResponse == Response(0, None, {}, <<>>)
\* Faulty variant: the reply clears the inputs of the insurance check.
ReplyOnly_Clearing(text) ==
    Response(200, text, {"doctor_info_list", "selected_doctor_name", "insurance_provider"}, <<>>)
\* A reply with no sessionInfo.
ReplyOnly(text) == Response(200, text, {}, <<>>)
\* The outermost except of webhook().
FaultResponse == Response(500, "generic_apology", {}, <<>>)

\* Only a time object has strftime; a string, a number or None raises.
HasStrftime(time_slot) == time_slot.rep = "time"

\* Faulty variant: the two confirmation texts are swapped.
ConfirmationText_Swapped(sent) ==
    IF sent THEN "booked_notification_failed" ELSE "booked_and_confirmed"
\* The reply of a booking that was made.
ConfirmationText(sent) ==
    IF sent THEN "booked_and_confirmed" ELSE "booked_notification_failed"

\* The final response of the booking-confirmation path: it resets the
\* temporary session parameters and formats the candidate's time_slot.
BookingResponse(cand, text) ==
    IF cand # NoCandidate /\ cand.time_slot # NoTime /\ ~HasStrftime(cand.time_slot)
    THEN FaultResponse
    ELSE LET fixed == {"booking_confirmed", "selected_doctor_object",
                       "user_name", "dob", "symptoms_list"}
             noName == IF cand = NoCandidate \/ cand.name = <<>>
                       THEN {"doctor_name"} ELSE {}
             noTime == IF cand = NoCandidate \/ cand.time_slot = NoTime
                       THEN {"appointment_time"} ELSE {}
             named == IF noName = {} THEN [doctor_name |-> cand.name] ELSE <<>>
             timed == IF noTime = {}
                      THEN [appointment_time |-> TimeString(cand.time_slot.t)]
                      ELSE <<>>
         IN  Response(200, text, fixed \cup noName \cup noTime, named @@ timed)

(***************************************************************************)
(* send_confirmation_email                                                 *)
(***************************************************************************)
\* True only when the SMTP settings are present, the body can be formatted
\* (time_slot.strftime) and the transport accepts the message.
send_confirmation_email(time_slot, transport_ok) ==
    transport_ok /\ HasStrftime(time_slot)

(***************************************************************************)
(* book_appointment                                                        *)
(***************************************************************************)
\* The check on the snapshot read before the transaction.
SnapshotRejected(exists, booked) == ~exists \/ booked
\* Faulty variant: the transaction trusts the snapshot read before it and
\* tests only that the document exists.
TransactionRejected_ExistsOnly(exists, booked) == ~exists
\* Faulty variant: the transaction updates whatever it reads.
TransactionRejected_Never(exists, booked) == FALSE
\* The check on the snapshot read inside the transaction.
TransactionRejected(exists, booked) == ~exists \/ booked

\* The document added to appointments.  by_slot is history: the slot whose
\* flag the same call set; the code stores no slot id in the record.
NewAppointment(id, user_name, email, cand, symptoms) ==
    [patient_name |-> user_name, patient_email |-> email,
     doctor_name |-> cand.name, time_slot |-> cand.time_slot,
     symptoms |-> symptoms, by_slot |-> id]

\* Faulty variant: a rejected snapshot is reported as a booking.
RejectedResult_True == TRUE
\* The value returned when the first snapshot is rejected.
RejectedResult == FALSE

\* Faulty variant: the flag set is the one of the doctor's earliest slot.
Claim_EarliestOfDoctor(flags, id) ==
    LET doctor == IF id \in {"s3", "s4"} THEN "d3" ELSE IF id = "s6" THEN "d2" ELSE "d1"
        first == IF doctor = "d3" THEN "s3" ELSE IF doctor = "d2" THEN "s6" ELSE "s2"
    IN  [flags EXCEPT ![first] = TRUE]
\* update_in_transaction: transaction.update(appointment_ref, {'is_booked': True}).
Claim(flags, id) == [flags EXCEPT ![id] = TRUE]

\* Faulty variant: a failed record write releases the slot again.
AfterFailedAdd_Release(flags, id) == [flags EXCEPT ![id] = FALSE]
\* The except handlers of book_appointment return False and leave the flag
\* that the transaction set.
AfterFailedAdd(flags, id) == flags

\* History of a call: the slot asked for, its flag when the call began, the
\* branch the call returned from and the number of writes it made.
BookCall(id, free, outcome, writes) ==
    [id |-> id, free_at_call |-> free, outcome |-> outcome, writes |-> writes]
NoCall == BookCall(None, FALSE, "none", 0)

RecordsOf(s) == { i \in DOMAIN appointments : appointments[i].by_slot = s }

(***************************************************************************)
(* Texts.  A text is the sequence of its words; "a in b" of the code is    *)
(* the search of the words of a as a run of consecutive words of b.        *)
(***************************************************************************)
\* str.lower on a word.
Lower(w) ==
    CASE w = "Dr." -> "dr."
      [] w = "Dr" -> "dr"
      [] w = "Jane" -> "jane"
      [] w = "Doe" -> "doe"
      [] w = "John" -> "john"
      [] w = "Smith" -> "smith"
      [] w = "Amy" -> "amy"
      [] w = "Roe" -> "roe"
      [] w = "Second" -> "second"
      [] w = "Doe," -> "doe,"
      [] w = "Who" -> "who"
      [] w = "DR" -> "dr"
      [] w = "SMITH" -> "smith"
      [] w = "Unconscious" -> "unconscious"
      [] OTHER -> w

LowerText(text) == [i \in DOMAIN text |-> Lower(text[i])]

\* part in text
Contains(text, part) ==
    \E i \in 0..(Len(text) - Len(part)) :
        \A j \in 1..Len(part) : text[i + j] = part[j]

\* ' '.join(list)
RECURSIVE Join(_)
Join(list) == IF list = <<>> THEN <<>> ELSE Head(list) \o Join(Tail(list))

(***************************************************************************)
(* The triage classifier (inline in webhook())                             *)
(***************************************************************************)
EmergencyKeywords == { <<"emergency">>, <<"severe", "breathing">>, <<"unconscious">> }

\* Faulty variant: the thresholds are compared with > instead of >=.
Classify_Strict(symptoms_list, duration) ==
    LET symptom_text == LowerText(Join(symptoms_list))
    IN  IF \E k \in EmergencyKeywords : Contains(symptom_text, k) THEN "emergency"
        ELSE IF duration.kind # "int" THEN "TypeError"
        ELSE IF duration.n > 14 THEN "specialist"
        ELSE IF duration.n > 3 THEN "gp"
        ELSE "self_care"
\* The outcome of the if/elif chain; "TypeError" when the duration that an
\* elif compares with a number is not a number.
Classify(symptoms_list, duration) ==
    LET symptom_text == LowerText(Join(symptoms_list))
    IN  IF \E k \in EmergencyKeywords : Contains(symptom_text, k) THEN "emergency"
        ELSE IF duration.kind # "int" THEN "TypeError"
        ELSE IF duration.n >= 14 THEN "specialist"
        ELSE IF duration.n >= 3 THEN "gp"
        ELSE "self_care"

(***************************************************************************)
(* get_available_doctors                                                   *)
(***************************************************************************)
HoursPerDay == 24
\* datetime.weekday(): Monday is 0.
Weekday(t) == (t \div HoursPerDay) % 7
\* Midnight of the day of t.
Midnight(t) == (t \div HoursPerDay) * HoursPerDay

StartOfWeekend(now) ==
    LET days_until_saturday == (5 - Weekday(now) + 7) % 7
    IN  Midnight(now + days_until_saturday * HoursPerDay)
EndOfWeekend(now) == StartOfWeekend(now) + 2 * HoursPerDay
ThirtyDaysFromNow(now) == now + 30 * HoursPerDay

\* Faulty variant: the order is descending.
Earliest_Latest(slots) ==
    IF slots = {} THEN None
    ELSE CHOOSE s \in slots : \A o \in slots : SlotTime(s) >= SlotTime(o)
\* order_by('time_slot').limit(1) over the documents that pass the filters.
Earliest(slots) ==
    IF slots = {} THEN None
    ELSE CHOOSE s \in slots : \A o \in slots : SlotTime(s) <= SlotTime(o)

\* Faulty variant: the filter on is_booked is missing.
weekend_query_AnyFlag(doctor_id, now) ==
    Earliest({ s \in SlotIds : /\ SlotDoctor(s) = doctor_id
                              /\ SlotTime(s) >= StartOfWeekend(now)
                              /\ SlotTime(s) < EndOfWeekend(now) })
weekend_query(doctor_id, now) ==
    Earliest({ s \in SlotIds : /\ SlotDoctor(s) = doctor_id
                              /\ is_booked[s] = FALSE
                              /\ SlotTime(s) >= StartOfWeekend(now)
                              /\ SlotTime(s) < EndOfWeekend(now) })

any_day_query(doctor_id, now) ==
    Earliest({ s \in SlotIds : /\ SlotDoctor(s) = doctor_id
                              /\ is_booked[s] = FALSE
                              /\ SlotTime(s) > now
                              /\ SlotTime(s) < ThirtyDaysFromNow(now) })

\* doctor_query.stream(): the doctors of the specialty, in store order.
DoctorsOf(specialty) ==
    SelectSeq(Doctors, LAMBDA d : DoctorSpecialty(d) = specialty)

\* appointment_data: the slot document with its id and the doctor's name.
AppointmentData(s) == Candidate(s, DoctorName(SlotDoctor(s)), TimeObject(SlotTime(s)))

\* jsonify: a time object leaves as a string.
Serialize(cand) ==
    [cand EXCEPT !.time_slot = IF @.rep = "time" THEN TimeString(@.t) ELSE @]
SerializeList(list) == [i \in DOMAIN list |-> Serialize(list[i])]

(***************************************************************************)
(* check_insurance_and_cost                                                *)
(***************************************************************************)
\* Faulty variant: the test is whether the doctor accepts any insurance.
check_insurance_and_cost_AnyAccepted(doctor_name, insurance_provider, fault) ==
    LET docs == { i \in DOMAIN Doctors : DoctorName(Doctors[i]) = doctor_name }
    IN  IF fault THEN "An error occurred while checking insurance."
        ELSE IF docs = {} THEN "Sorry, I can't find information for that doctor."
        ELSE LET first == CHOOSE i \in docs : \A j \in docs : i <= j
             IN  IF AcceptedInsurances(Doctors[first]) # {}
                 THEN "Your visit is covered by your insurance."
                 ELSE "This doctor does not accept your insurance."
\* The status message: the doctor is looked up by name.
check_insurance_and_cost(doctor_name, insurance_provider, fault) ==
    LET docs == { i \in DOMAIN Doctors : DoctorName(Doctors[i]) = doctor_name }
    IN  IF fault THEN "An error occurred while checking insurance."
        ELSE IF docs = {} THEN "Sorry, I can't find information for that doctor."
        ELSE LET first == CHOOSE i \in docs : \A j \in docs : i <= j
             IN  IF insurance_provider \in AcceptedInsurances(Doctors[first])
                 THEN "Your visit is covered by your insurance."
                 ELSE "This doctor does not accept your insurance."

\* "covered" in status
FinalStatus(message) ==
    IF message = "Your visit is covered by your insurance." THEN "covered" ELSE "not_covered"

(***************************************************************************)
(* get_doctor_from_choice                                                  *)
(***************************************************************************)
number_words == <<"first", "second", "third", "fourth", "fifth">>

\* The letters a word begins with ("" for none).
LetterHead(w) ==
    CASE w = "Dr." -> "Dr"
      [] w = "dr." -> "dr"
      [] w = "Doe," -> "Doe"
      [] w = "please," -> "please"
      [] w = "2" -> ""
      [] OTHER -> w

IsLetters(w) == LetterHead(w) = w

\* re.search(r'dr\.?\s+([a-zA-Z\s]+)', ...): what follows the first "dr"
\* that is followed by a letter, up to the first character that is neither
\* a letter nor a space.
RECURSIVE LettersPrefix(_)
LettersPrefix(text) ==
    IF text = <<>> THEN <<>>
    ELSE IF IsLetters(Head(text)) THEN <<Head(text)>> \o LettersPrefix(Tail(text))
    ELSE IF LetterHead(Head(text)) # "" THEN <<LetterHead(Head(text))>>
    ELSE <<>>

DrName(choice_string) ==
    LET starts == { i \in 1..(Len(choice_string) - 1) :
                      /\ Lower(choice_string[i]) \in {"dr", "dr."}
                      /\ LetterHead(choice_string[i + 1]) # "" }
    IN  IF starts = {} THEN <<>>
        ELSE LET i == CHOOSE k \in starts : \A o \in starts : k <= o
             IN  LettersPrefix(SubSeq(choice_string, i + 1, Len(choice_string)))

\* Faulty variant: the ordinal is used as a 1-based index.
get_doctor_from_choice_OneBased(doctor_info_list, choice_string) ==
    LET choice_lower == LowerText(choice_string)
        hits == { i \in DOMAIN number_words : Contains(choice_lower, <<number_words[i]>>) }
    IN  IF hits # {}
        THEN LET i == CHOOSE k \in hits : \A o \in hits : k <= o
             IN  IF i + 1 <= Len(doctor_info_list) THEN doctor_info_list[i + 1]
                 ELSE NoCandidate
        ELSE LET name == DrName(choice_string)
                 found == { k \in DOMAIN doctor_info_list :
                              Contains(LowerText(doctor_info_list[k].name), LowerText(name)) }
             IN  IF name = <<>> \/ found = {} THEN NoCandidate
                 ELSE doctor_info_list[CHOOSE k \in found : \A o \in found : k <= o]
\* The candidate chosen, NoCandidate for None.
get_doctor_from_choice(doctor_info_list, choice_string) ==
    LET choice_lower == LowerText(choice_string)
        hits == { i \in DOMAIN number_words : Contains(choice_lower, <<number_words[i]>>) }
    IN  IF hits # {}
        THEN LET i == CHOOSE k \in hits : \A o \in hits : k <= o
             IN  IF i <= Len(doctor_info_list) THEN doctor_info_list[i] ELSE NoCandidate
        ELSE LET name == DrName(choice_string)
                 found == { k \in DOMAIN doctor_info_list :
                              Contains(LowerText(doctor_info_list[k].name), LowerText(name)) }
             IN  IF name = <<>> \/ found = {} THEN NoCandidate
                 ELSE doctor_info_list[CHOOSE k \in found : \A o \in found : k <= o]

(***************************************************************************)
(* webhook(): the dispatcher                                               *)
(***************************************************************************)
\* Faulty variant: the insurance-check test comes first.
Route_InsuranceFirst(p) ==
    IF /\ p.selected_doctor_name # <<>>
       /\ p.insurance_provider # None
       /\ p.doctor_info_list # <<>>
    THEN "insurance"
    ELSE IF p.booking_confirmed THEN "booking" ELSE "triage"
\* The handling path of a turn, by the order of the tests of webhook().
Route(p) ==
    IF p.booking_confirmed THEN "booking"
    ELSE IF /\ p.selected_doctor_name # <<>>
            /\ p.insurance_provider # None
            /\ p.doctor_info_list # <<>>
         THEN "insurance"
         ELSE "triage"

\* The locals of get_available_doctors: now, the doctors still to visit,
\* and available_doctors.
Resolver(now, todo, found) == [now |-> now, doctors |-> todo, available_doctors |-> found]
NoResolver == Resolver(0, <<>>, <<>>)

Init ==
    /\ is_booked = [s \in SlotIds |-> FALSE]
    /\ appointments = <<>>
    /\ wins = [s \in SlotIds |-> 0]
    /\ pc = [r \in Reqs |-> "idle"]
    /\ path = [r \in Reqs |-> None]
    /\ session_params = [r \in Reqs |-> DefaultParams]
    /\ formatted_dob = [r \in Reqs |-> NoDate]
    /\ user_email = [r \in Reqs |-> None]
    /\ book_state = [r \in Reqs |-> NoCall]
    /\ appointment_booked = [r \in Reqs |-> FALSE]
    /\ email_sent = [r \in Reqs |-> FALSE]
    /\ response_text = [r \in Reqs |-> None]
    /\ calls = [r \in Reqs |-> <<>>]
    /\ symptom_result = [r \in Reqs |-> None]
    /\ status = [r \in Reqs |-> None]
    /\ resolver = [r \in Reqs |-> NoResolver]
    /\ response = [r \in Reqs |-> NoResponse]

\* A request arrives: the locals of the previous turn are gone.
Begin(r, p, route) ==
    /\ pc[r] \in {"idle", "done"}
    /\ Route(p) = route
    /\ session_params' = [session_params EXCEPT ![r] = p]
    /\ path' = [path EXCEPT ![r] = route]
    /\ user_email' = [user_email EXCEPT ![r] = None]
    /\ book_state' = [book_state EXCEPT ![r] = NoCall]
    /\ appointment_booked' = [appointment_booked EXCEPT ![r] = FALSE]
    /\ email_sent' = [email_sent EXCEPT ![r] = FALSE]
    /\ UNCHANGED <<is_booked, appointments, wins>>

(***************************************************************************)
(* The booking-confirmation path                                           *)
(***************************************************************************)
\* The turn up to find_user_email: the presence test of the three inputs
\* and the normalisation of the date of birth.
ReceiveBooking(r, p) ==
    /\ Begin(r, p, "booking")
    /\ IF /\ p.selected_doctor_object # NoCandidate
          /\ p.user_name # NoName
          /\ p.dob # NoDob
       THEN LET dob == get_date_string_from_dob_param(p.dob)
            IN  /\ formatted_dob' = [formatted_dob EXCEPT ![r] = dob]
                /\ calls' = [calls EXCEPT ![r] = <<"dob">>]
                /\ IF dob = NoDate
                   THEN /\ pc' = [pc EXCEPT ![r] = "done"]
                        /\ response_text' = [response_text EXCEPT ![r] = "dob_format"]
                        /\ response' = [response EXCEPT ![r] = ReplyOnly("dob_format")]
                   ELSE /\ pc' = [pc EXCEPT ![r] = "lookup"]
                        /\ response_text' = [response_text EXCEPT ![r] = None]
                        /\ response' = [response EXCEPT ![r] = NoResponse]
       ELSE /\ formatted_dob' = [formatted_dob EXCEPT ![r] = NoDate]
            /\ calls' = [calls EXCEPT ![r] = <<>>]
            /\ pc' = [pc EXCEPT ![r] = "respond"]
            /\ response_text' = [response_text EXCEPT ![r] = "missing_details"]
            /\ response' = [response EXCEPT ![r] = NoResponse]
    /\ symptom_result' = [symptom_result EXCEPT ![r] = None]
    /\ status' = [status EXCEPT ![r] = None]
    /\ resolver' = [resolver EXCEPT ![r] = NoResolver]

\* Faulty variant: the booking goes on without a contact address.
Lookup_Ungated(r) ==
    /\ pc[r] = "lookup"
    /\ \E fault \in BOOLEAN :
         LET p == session_params[r]
             email == find_user_email(FirstName(p.user_name), LastName(p.user_name),
                                      formatted_dob[r], fault)
         IN  /\ user_email' = [user_email EXCEPT ![r] = email]
             /\ IF p.selected_doctor_object.id = None
                THEN /\ pc' = [pc EXCEPT ![r] = "respond"]
                     /\ response_text' = [response_text EXCEPT ![r] = "no_appointment_details"]
                ELSE /\ pc' = [pc EXCEPT ![r] = "book_get"]
                     /\ UNCHANGED response_text
    /\ calls' = [calls EXCEPT ![r] = Append(@, "lookup")]
    /\ UNCHANGED <<is_booked, appointments, wins, path, session_params, formatted_dob,
                   book_state, appointment_booked, email_sent, symptom_result, status, resolver, response>>
\* find_user_email, then the test of the candidate's id.
Lookup(r) ==
    /\ pc[r] = "lookup"
    /\ \E fault \in BOOLEAN :
         LET p == session_params[r]
             email == find_user_email(FirstName(p.user_name), LastName(p.user_name),
                                      formatted_dob[r], fault)
         IN  /\ user_email' = [user_email EXCEPT ![r] = email]
             /\ IF email = None
                THEN /\ pc' = [pc EXCEPT ![r] = "respond"]
                     /\ response_text' = [response_text EXCEPT ![r] = "patient_not_found"]
                ELSE IF p.selected_doctor_object.id = None
                THEN /\ pc' = [pc EXCEPT ![r] = "respond"]
                     /\ response_text' = [response_text EXCEPT ![r] = "no_appointment_details"]
                ELSE /\ pc' = [pc EXCEPT ![r] = "book_get"]
                     /\ UNCHANGED response_text
    /\ calls' = [calls EXCEPT ![r] = Append(@, "lookup")]
    /\ UNCHANGED <<is_booked, appointments, wins, path, session_params, formatted_dob,
                   book_state, appointment_booked, email_sent, symptom_result, status, resolver, response>>

\* book_appointment returns: webhook() goes on to the notifier or picks the
\* reply of a failed booking.
Return(r, result, outcome) ==
    /\ appointment_booked' = [appointment_booked EXCEPT ![r] = result]
    /\ book_state' = [book_state EXCEPT ![r] =
           LET id == session_params[r].selected_doctor_object.id
           IN  BookCall(id,
                        IF pc[r] = "book_get"
                        THEN id \in SlotIds /\ ~is_booked[id]
                        ELSE @.free_at_call,
                        outcome,
                        IF outcome = "success" THEN @.writes + 1 ELSE @.writes)]
    /\ IF result
       THEN /\ pc' = [pc EXCEPT ![r] = "notify"]
            /\ UNCHANGED response_text
       ELSE /\ pc' = [pc EXCEPT ![r] = "respond"]
            /\ response_text' = [response_text EXCEPT ![r] = "no_longer_available"]

\* book_appointment, first read: doc_snapshot = appointment_doc_ref.get().
BookGet(r) ==
    /\ pc[r] = "book_get"
    /\ LET id == session_params[r].selected_doctor_object.id
           exists == id \in SlotIds
           booked == exists /\ is_booked[id]
       IN  \E fault \in BOOLEAN :
             IF fault THEN Return(r, FALSE, "fault")
             ELSE IF SnapshotRejected(exists, booked)
             THEN Return(r, RejectedResult,
                         IF exists THEN "already_booked" ELSE "not_found")
             ELSE /\ pc' = [pc EXCEPT ![r] = "book_transaction"]
                  /\ book_state' = [book_state EXCEPT ![r] =
                         BookCall(id, exists /\ ~booked, "none", 0)]
                  /\ UNCHANGED <<appointment_booked, response_text>>
    /\ calls' = [calls EXCEPT ![r] = Append(@, "book")]
    /\ UNCHANGED <<is_booked, appointments, wins, path, session_params, formatted_dob,
                   user_email, email_sent, symptom_result, status, resolver, response>>

\* book_appointment, the transaction: the store runs the read, the test and
\* the update of update_in_transaction as one step, or fails as a whole.
BookTransaction(r) ==
    /\ pc[r] = "book_transaction"
    /\ LET id == session_params[r].selected_doctor_object.id
           exists == id \in SlotIds
           booked == exists /\ is_booked[id]
       IN  \E fault \in BOOLEAN :
             IF fault
             THEN Return(r, FALSE, "fault") /\ UNCHANGED is_booked
             ELSE IF TransactionRejected(exists, booked)
             THEN /\ Return(r, FALSE, IF exists THEN "already_booked" ELSE "not_found")
                  /\ UNCHANGED is_booked
             ELSE /\ is_booked' = Claim(is_booked, id)
                  /\ pc' = [pc EXCEPT ![r] = "book_add"]
                  /\ book_state' = [book_state EXCEPT ![r].writes = @ + 1]
                  /\ UNCHANGED <<appointment_booked, response_text>>
    /\ UNCHANGED <<appointments, wins, path, session_params, formatted_dob, user_email,
                   email_sent, calls, symptom_result, status, resolver, response>>

\* book_appointment, the record: appointments_ref.add(new_appointment_data).
BookAdd(r) ==
    /\ pc[r] = "book_add"
    /\ LET p == session_params[r]
           id == p.selected_doctor_object.id
       IN  \E fault \in BOOLEAN :
             IF fault
             THEN /\ Return(r, FALSE, "fault")
                  /\ is_booked' = AfterFailedAdd(is_booked, id)
                  /\ UNCHANGED <<appointments, wins>>
             ELSE /\ UNCHANGED is_booked
                  /\ appointments' = Append(appointments,
                        NewAppointment(id, p.user_name, user_email[r],
                                       p.selected_doctor_object, p.symptoms_list))
                  /\ wins' = [wins EXCEPT ![id] = @ + 1]
                  /\ Return(r, TRUE, "success")
    /\ UNCHANGED <<path, session_params, formatted_dob, user_email,
                   email_sent, calls, symptom_result, status, resolver, response>>

\* send_confirmation_email and the choice of the confirmation text.
Notify(r) ==
    /\ pc[r] = "notify"
    /\ \E transport_ok \in BOOLEAN :
         LET sent == send_confirmation_email(
                         session_params[r].selected_doctor_object.time_slot, transport_ok)
         IN  /\ email_sent' = [email_sent EXCEPT ![r] = sent]
             /\ response_text' = [response_text EXCEPT ![r] = ConfirmationText(sent)]
    /\ pc' = [pc EXCEPT ![r] = "respond"]
    /\ calls' = [calls EXCEPT ![r] = Append(@, "notify")]
    /\ UNCHANGED <<is_booked, appointments, wins, path, session_params, formatted_dob,
                   user_email, book_state, appointment_booked, symptom_result, status, resolver,
                   response>>

\* The final response of the booking-confirmation path.
Respond(r) ==
    /\ pc[r] = "respond"
    /\ response' = [response EXCEPT ![r] =
           BookingResponse(session_params[r].selected_doctor_object, response_text[r])]
    /\ pc' = [pc EXCEPT ![r] = "done"]
    /\ UNCHANGED <<is_booked, appointments, wins, path, session_params, formatted_dob,
                   user_email, book_state, appointment_booked, email_sent,
                   response_text, calls, symptom_result, status, resolver>>

(***************************************************************************)
(* The insurance-check path                                                *)
(***************************************************************************)
InsuranceResponse(selected, list, message) ==
    Response(200,
             IF FinalStatus(message) = "covered" THEN "covered_offer" ELSE "not_covered_offer",
             {},
             [selected_doctor_object |-> selected,
              final_status |-> FinalStatus(message),
              doctor_info_list |-> list])

\* The whole path: get_doctor_from_choice, check_insurance_and_cost (one read
\* of the doctors collection) and the response.
InsuranceTurn(r, p) ==
    /\ Begin(r, p, "insurance")
    /\ LET selected == get_doctor_from_choice(p.doctor_info_list, p.selected_doctor_name)
       IN  IF selected # NoCandidate
           THEN \E fault \in BOOLEAN :
                  LET message == check_insurance_and_cost(selected.name,
                                                          p.insurance_provider, fault)
                  IN  /\ status' = [status EXCEPT ![r] = message]
                      /\ response' = [response EXCEPT ![r] =
                             InsuranceResponse(selected, p.doctor_info_list, message)]
                      /\ calls' = [calls EXCEPT ![r] = <<"choice", "insurance">>]
           ELSE /\ status' = [status EXCEPT ![r] = None]
                /\ response' = [response EXCEPT ![r] = ReplyOnly("doctor_not_found")]
                /\ calls' = [calls EXCEPT ![r] = <<"choice">>]
    /\ pc' = [pc EXCEPT ![r] = "done"]
    /\ response_text' = [response_text EXCEPT ![r] = response'[r].text]
    /\ formatted_dob' = [formatted_dob EXCEPT ![r] = NoDate]
    /\ symptom_result' = [symptom_result EXCEPT ![r] = None]
    /\ resolver' = [resolver EXCEPT ![r] = NoResolver]

(***************************************************************************)
(* The triage path                                                         *)
(***************************************************************************)
TriageText(result, available) ==
    CASE result = "emergency" -> "emergency_advice"
      [] result = "self_care" -> "self_care_advice"
      [] result = "gp" ->
            IF available # <<>> THEN "gp_advice_with_doctors" ELSE "gp_advice_no_doctors"
      [] result = "specialist" ->
            IF available # <<>> THEN "specialist_advice_with_doctors"
            ELSE "specialist_advice_no_doctors"

TriageResponse(result, available) ==
    Response(200, TriageText(result, available), {},
             [symptom_result |-> result,
              doctor_available |-> (available # <<>>),
              doctor_info_list |-> SerializeList(available)])

\* The classifier and, for a result that needs a doctor, the start of
\* get_available_doctors at time now.
ReceiveTriage(r, p, now) ==
    /\ Begin(r, p, "triage")
    /\ LET result == Classify(p.symptoms_list, p.symptom_duration_days)
       IN  /\ symptom_result' = [symptom_result EXCEPT ![r] = result]
           /\ IF result = "TypeError"
              THEN /\ response' = [response EXCEPT ![r] = FaultResponse]
                   /\ pc' = [pc EXCEPT ![r] = "done"]
                   /\ resolver' = [resolver EXCEPT ![r] = NoResolver]
                   /\ calls' = [calls EXCEPT ![r] = <<"classify">>]
              ELSE IF result \in {"gp", "specialist"}
              THEN /\ response' = [response EXCEPT ![r] = NoResponse]
                   /\ resolver' = [resolver EXCEPT ![r] = Resolver(now, DoctorsOf(result), <<>>)]
                   /\ pc' = [pc EXCEPT ![r] =
                          IF DoctorsOf(result) = <<>> THEN "triage_respond"
                          ELSE "weekend_query"]
                   /\ calls' = [calls EXCEPT ![r] = <<"classify", "resolver">>]
              ELSE /\ response' = [response EXCEPT ![r] = TriageResponse(result, <<>>)]
                   /\ pc' = [pc EXCEPT ![r] = "done"]
                   /\ resolver' = [resolver EXCEPT ![r] = NoResolver]
                   /\ calls' = [calls EXCEPT ![r] = <<"classify">>]
    /\ response_text' = [response_text EXCEPT ![r] = None]
    /\ formatted_dob' = [formatted_dob EXCEPT ![r] = NoDate]
    /\ status' = [status EXCEPT ![r] = None]

\* The loop of get_available_doctors goes on after a doctor: appointment_doc
\* is the slot found for the doctor at the head, None for none.
NextDoctor(r, appointment_doc) ==
    LET rs == resolver[r]
        found == IF appointment_doc = None THEN rs.available_doctors
                 ELSE Append(rs.available_doctors, AppointmentData(appointment_doc))
    IN  /\ resolver' = [resolver EXCEPT ![r] = Resolver(rs.now, Tail(rs.doctors), found)]
        /\ pc' = [pc EXCEPT ![r] =
               IF Tail(rs.doctors) = <<>> THEN "triage_respond" ELSE "weekend_query"]

\* An exception inside get_available_doctors: it returns [].
ResolverFault(r) ==
    /\ resolver' = [resolver EXCEPT ![r] = Resolver(@.now, <<>>, <<>>)]
    /\ pc' = [pc EXCEPT ![r] = "triage_respond"]

\* Phase 1 for the doctor at the head.
WeekendQuery(r) ==
    /\ pc[r] = "weekend_query"
    /\ \E fault \in BOOLEAN :
         IF fault THEN ResolverFault(r)
         ELSE LET appointment_doc == weekend_query(Head(resolver[r].doctors), resolver[r].now)
              IN  IF appointment_doc = None
                  THEN /\ pc' = [pc EXCEPT ![r] = "any_day_query"]
                       /\ UNCHANGED resolver
                  ELSE NextDoctor(r, appointment_doc)
    /\ UNCHANGED <<is_booked, appointments, wins, path, session_params, formatted_dob,
                   user_email, book_state, appointment_booked, email_sent,
                   response_text, calls, symptom_result, status, response>>

\* Phase 2 for the doctor at the head.
AnyDayQuery(r) ==
    /\ pc[r] = "any_day_query"
    /\ \E fault \in BOOLEAN :
         IF fault THEN ResolverFault(r)
         ELSE NextDoctor(r, any_day_query(Head(resolver[r].doctors), resolver[r].now))
    /\ UNCHANGED <<is_booked, appointments, wins, path, session_params, formatted_dob,
                   user_email, book_state, appointment_booked, email_sent,
                   response_text, calls, symptom_result, status, response>>

\* The response of the triage path with the list of get_available_doctors.
TriageRespond(r) ==
    /\ pc[r] = "triage_respond"
    /\ response' = [response EXCEPT ![r] =
           TriageResponse(symptom_result[r], resolver[r].available_doctors)]
    /\ pc' = [pc EXCEPT ![r] = "done"]
    /\ UNCHANGED <<is_booked, appointments, wins, path, session_params, formatted_dob,
                   user_email, book_state, appointment_booked, email_sent,
                   response_text, calls, symptom_result, status, resolver>>

(***************************************************************************)
(* The requests and the specification                                      *)
(***************************************************************************)
InsuranceParams(choice, provider, list) ==
    [DefaultParams EXCEPT !.selected_doctor_name = choice,
                          !.insurance_provider = provider,
                          !.doctor_info_list = list]

InsuranceRequests ==
    { InsuranceParams(c, i, <<Snapshot("s1")>>) :
        c \in { <<"first">>, <<"tenth">> }, i \in {"acme", "zeta"} }

TriageParams(symptoms, duration) ==
    [DefaultParams EXCEPT !.symptoms_list = symptoms,
                          !.symptom_duration_days = duration]

TriageRequests ==
    { TriageParams(<<<<"fever">>>>, d) :
        d \in { Duration("int", 0), Duration("int", 5), Duration("int", 14),
                Duration("str", 0), Duration("null", 0) } }
    \cup { TriageParams(<<<<"Unconscious">>>>, Duration("str", 0)),
           \* a doctor choice without insurance provider: still triage
           [TriageParams(<<<<"fever">>>>, Duration("int", 0))
               EXCEPT !.selected_doctor_name = <<"first">>] }

\* A booking confirmation that also carries the inputs of the other paths.
MixedRequests ==
    { [BookingParams(Snapshot("s1"), Ann, GoodDob)
          EXCEPT !.selected_doctor_name = <<"first">>,
                 !.insurance_provider = "acme",
                 !.doctor_info_list = <<Snapshot("s1")>>,
                 !.symptoms_list = <<<<"fever">>>>],
      \* the same, with a candidate that has lost its time_slot
      [BookingParams(Candidate("s1", DoctorName("d1"), NoTime), Ann, GoodDob)
          EXCEPT !.selected_doctor_name = <<"first">>,
                 !.insurance_provider = "acme",
                 !.doctor_info_list = <<Snapshot("s1")>>] }

Requests == BookingRequests \cup InsuranceRequests \cup TriageRequests \cup MixedRequests

\* Only a booking confirmation that reaches book_appointment touches the
\* store, so these are the turns of other sessions that a turn can notice.
\* r1 sends any request; r2 is the other session and sends these.
CompetingRequests == { BookingParams(Snapshot(s), Ann, GoodDob) : s \in {"s1", "s2"} }

RequestsOf(r) == IF r = "r1" THEN Requests ELSE CompetingRequests

\* The wall-clock times at which get_available_doctors runs: a Wednesday
\* 09:00 and the Saturday 12:00 after it.
Times == {57, 132}

Next ==
    \E r \in Reqs :
        \/ \E p \in RequestsOf(r) : ReceiveBooking(r, p)
        \/ \E p \in RequestsOf(r) : InsuranceTurn(r, p)
        \/ \E p \in RequestsOf(r), now \in Times : ReceiveTriage(r, p, now)
        \/ Lookup(r)
        \/ BookGet(r)
        \/ BookTransaction(r)
        \/ BookAdd(r)
        \/ Notify(r)
        \/ Respond(r)
        \/ WeekendQuery(r)
        \/ AnyDayQuery(r)
        \/ TriageRespond(r)

Spec == Init /\ [][Next]_vars

(***************************************************************************)
(* The triage path alone, over a range of symptom lists and durations.     *)
(***************************************************************************)
\* The largest duration tried.
MaxDays == 16

\* Symptom lists: none, plain ones, keywords in either case, a keyword that
\* the join forms out of two items, and its words apart from each other.
ClassifierSymptoms ==
    { <<>>,
      << <<"fever">> >>,
      << <<"mild", "cough">>, <<"fever">> >>,
      << <<"Unconscious">> >>,
      << <<"fever">>, <<"an", "emergency">> >>,
      << <<"severe">>, <<"breathing">> >>,
      << <<"severe", "cough">>, <<"breathing">> >> }

ClassifierRequests ==
    { TriageParams(symptoms, Duration("int", n)) :
        symptoms \in ClassifierSymptoms, n \in (0 - 2)..MaxDays }

NextTriage ==
    \/ \E p \in ClassifierRequests, now \in Times : ReceiveTriage("r1", p, now)
    \/ WeekendQuery("r1")
    \/ AnyDayQuery("r1")
    \/ TriageRespond("r1")

SpecTriage == Init /\ [][NextTriage]_vars

(***************************************************************************)
(* The insurance-check path alone, over candidate lists and choice texts.  *)
(***************************************************************************)
\* Three candidates: of d1, of a doctor listed as "Dr. John Smith" whom the
\* store does not hold under that name, and of d3.
CandA == Snapshot("s1")
CandB == Candidate(MissingId, <<"Dr.", "John", "Smith">>, TimeString(200))
CandC == Snapshot("s3")

ChoiceLists ==
    { <<CandA, CandB, CandC>>, <<CandA, CandB>>, <<CandA>>,
      <<CandB, CandA, CandC>>, <<CandC, CandA, CandB>>,
      <<CandA, CandB, CandC, CandB, CandA>> }

Choices ==
    { <<"second", "one">>, <<"Second">>, <<"the", "second", "or", "first">>,
      <<"first">>, <<"third">>, <<"fourth">>, <<"fifth">>, <<"tenth">>,
      <<"Dr.", "Smith">>, <<"dr", "smith">>, <<"DR", "SMITH">>,
      <<"Dr.", "Jane", "Doe,", "please">>, <<"i", "want", "Dr.", "Amy", "Roe">>,
      <<"Dr.", "Who">>, <<"Smith">>, <<"Dr.", "2">>, <<"Dr.", "Smith", "first">> }

ChoiceRequests ==
    { InsuranceParams(c, i, l) :
        c \in Choices, i \in {"acme", "zeta"}, l \in ChoiceLists }

NextChoice == \E p \in ChoiceRequests : InsuranceTurn("r1", p)

SpecChoice == Init /\ [][NextChoice]_vars

(***************************************************************************)
(* The session parameters of the next turn                                 *)
(***************************************************************************)
\* The parameters that the caller holds after a turn with parameters p was
\* answered with resp: a parameter set to null is removed (the handler then
\* reads its default), a parameter with a value takes it, the others stay.
\* A response without sessionInfo changes nothing.
SessionAfter(p, resp) ==
    [f \in DOMAIN p |->
        IF f \in resp.nulls THEN DefaultParams[f]
        ELSE IF f \in DOMAIN resp.values THEN resp.values[f]
        ELSE p[f]]

(***************************************************************************)
(* One session: a triage turn, insurance-check turns and a booking         *)
(* confirmation, each sent with the parameters the turn before left, while *)
(* another session books.                                                  *)
(***************************************************************************)
DialogueStarts ==
    { TriageParams(<<<<"fever">>>>, Duration("int", n)) : n \in {5, 14} }

DialogueChoices == { <<"first">>, <<"second">>, <<"Dr.", "Smith">>, <<"tenth">> }

\* The first turn of the session.
CallerStarts(r) ==
    /\ pc[r] = "idle"
    /\ \E p \in DialogueStarts, now \in Times : ReceiveTriage(r, p, now)

\* The user names a doctor and an insurance provider.
CallerChooses(r) ==
    /\ pc[r] = "done"
    /\ path[r] \in {"triage", "insurance"}
    /\ \E c \in DialogueChoices, i \in {"acme", "zeta"} :
         InsuranceTurn(r, [SessionAfter(session_params[r], response[r])
                              EXCEPT !.selected_doctor_name = c,
                                     !.insurance_provider = i])

\* The user confirms the booking and gives name and date of birth.
CallerConfirms(r) ==
    /\ pc[r] = "done"
    /\ path[r] = "insurance"
    /\ ReceiveBooking(r, [SessionAfter(session_params[r], response[r])
                             EXCEPT !.booking_confirmed = TRUE,
                                    !.user_name = Ann,
                                    !.dob = GoodDob])

NextDialogue ==
    \/ CallerStarts("r1")
    \/ CallerChooses("r1")
    \/ CallerConfirms("r1")
    \/ \E p \in CompetingRequests : ReceiveBooking("r2", p)
    \/ \E r \in Reqs :
          \/ Lookup(r)
          \/ BookGet(r)
          \/ BookTransaction(r)
          \/ BookAdd(r)
          \/ Notify(r)
          \/ Respond(r)
          \/ WeekendQuery(r)
          \/ AnyDayQuery(r)
          \/ TriageRespond(r)

SpecDialogue == Init /\ [][NextDialogue]_vars

(***************************************************************************)
(* Properties                                                              *)
(***************************************************************************)
\* The call of book_appointment of r's turn has returned.
Returned(r) == book_state[r].outcome # "none"
\* r's turn is in or past a call of book_appointment for slot s.
CalledFor(r, s) ==
    book_state[r].id = s /\ "book" \in { calls[r][i] : i \in DOMAIN calls[r] }

\* C1: two concurrent calls of book_appointment for the same existing slot,
\* both begun while the slot was unbooked and neither hit by a store fault:
\* once both have returned, exactly one returned True, the other returned
\* False because the slot was already booked, the slot is booked and has
\* exactly one booking record.
C1_OneWinnerOfARace ==
    \A s \in SlotIds :
        (\A r \in Reqs : /\ CalledFor(r, s)
                          /\ book_state[r].free_at_call
                          /\ Returned(r)
                          /\ book_state[r].outcome # "fault")
        => /\ Cardinality({ r \in Reqs : appointment_booked[r] }) = 1
           /\ Cardinality({ r \in Reqs : /\ ~appointment_booked[r]
                                          /\ book_state[r].outcome = "already_booked" }) = 1
           /\ is_booked[s]
           /\ Cardinality(RecordsOf(s)) = 1

\* Both requests raced for s1 and both have returned.
C1_Witness ==
    \A r \in Reqs : /\ CalledFor(r, "s1")
                     /\ book_state[r].free_at_call
                     /\ Returned(r)
                     /\ book_state[r].outcome # "fault"

\* C2: no double booking: for every slot at most one call of
\* book_appointment ever returned True and at most one booking record was
\* ever created, whatever turns were run, replayed ones included.
C2_NoDoubleBooking ==
    \A s \in SlotIds : wins[s] <= 1 /\ Cardinality(RecordsOf(s)) <= 1

\* A booked slot with its record, and a later confirmation for the same
\* slot that was turned down.
C2_Witness ==
    \E r \in Reqs :
        /\ CalledFor(r, "s1") /\ ~book_state[r].free_at_call
        /\ book_state[r].outcome = "already_booked"
        /\ wins["s1"] = 1 /\ Cardinality(RecordsOf("s1")) = 1

\* C3: the claim of the slot and the booking record are one indivisible
\* write: in every state a slot is booked exactly if its booking record
\* exists.
C3_FlagIffRecord ==
    \A s \in SlotIds : is_booked[s] <=> RecordsOf(s) # {}

\* C4: a call of book_appointment for a slot that was booked when the call
\* began returns False (the slot is taken, or the read failed) and writes
\* nothing.
C4_BookedSlotRejected ==
    \A r \in Reqs :
        (CalledFor(r, book_state[r].id) /\ book_state[r].id \in SlotIds
            /\ ~book_state[r].free_at_call)
        => /\ book_state[r].writes = 0
           /\ ~appointment_booked[r]
           /\ Returned(r)
           /\ book_state[r].outcome \in {"already_booked", "fault"}
           /\ response_text[r] = "no_longer_available"

\* A call for a booked slot returned, and the store holds what it held.
C4_Witness ==
    \E r \in Reqs :
        /\ CalledFor(r, "s1") /\ ~book_state[r].free_at_call
        /\ book_state[r].outcome = "already_booked"
        /\ ~appointment_booked[r]
        /\ pc[r] = "done"

StepOf(r) ==
    \/ pc'[r] # pc[r]
    \/ path'[r] # path[r]
    \/ calls'[r] # calls[r]
    \/ resolver'[r] # resolver[r]
    \/ response'[r] # response[r]

\* C6: no step turns a booked flag back to false; a step that changes the
\* store is a step of book_appointment in a booking-confirmation turn; the
\* steps of triage turns and of insurance-check turns leave the slots and
\* the booking records as they are.
C6_OnlyTheTransactorWrites ==
    [][ /\ \A s \in SlotIds : is_booked[s] => is_booked'[s]
        /\ (store' # store) =>
              \E r \in Reqs : /\ path[r] = "booking"
                               /\ pc[r] \in {"book_transaction", "book_add"}
                               /\ pc'[r] # pc[r]
        /\ \A r \in Reqs :
              (StepOf(r) /\ path'[r] \in {"triage", "insurance"}) => store' = store
      ]_vars

\* A triage turn ran its queries after s1 was booked (it offers s2), and s1
\* is still booked.
C6_Witness ==
    /\ is_booked["s1"]
    /\ path["r1"] = "triage" /\ pc["r1"] = "done"
    /\ symptom_result["r1"] = "gp"
    /\ response["r1"].values.doctor_info_list = <<Serialize(AppointmentData("s2"))>>

\* The components of each handling path.
PathSteps(route) ==
    CASE route = "booking" -> {"dob", "lookup", "book", "notify"}
      [] route = "insurance" -> {"choice", "insurance"}
      [] route = "triage" -> {"classify", "resolver"}

\* C7: a turn takes the booking-confirmation path whenever booking_confirmed
\* is true, otherwise the insurance-check path exactly when a doctor choice,
\* an insurance provider and a non-empty candidate list are present,
\* otherwise the triage path; it runs components of that path only.
C7_OnePathByPriority ==
    \A r \in Reqs :
        path[r] # None =>
            LET p == session_params[r]
                all_three == /\ p.selected_doctor_name # <<>>
                             /\ p.insurance_provider # None
                             /\ p.doctor_info_list # <<>>
            IN  /\ p.booking_confirmed => path[r] = "booking"
                /\ (~p.booking_confirmed /\ all_three) => path[r] = "insurance"
                /\ (~p.booking_confirmed /\ ~all_three) => path[r] = "triage"
                /\ { calls[r][i] : i \in DOMAIN calls[r] } \subseteq PathSteps(path[r])

\* A confirmation that carries the inputs of an insurance check as well went
\* through book_appointment.
C7_Witness ==
    /\ path["r1"] = "booking" /\ pc["r1"] = "done"
    /\ session_params["r1"].selected_doctor_name # <<>>
    /\ session_params["r1"].insurance_provider # None
    /\ session_params["r1"].doctor_info_list # <<>>
    /\ calls["r1"] = <<"dob", "lookup", "book", "notify">>

\* C8: every response of a booking-confirmation turn sets booking_confirmed,
\* the selected candidate, the patient name and the date of birth to null.
C8_BookingTurnClears ==
    \A r \in Reqs :
        (path[r] = "booking" /\ pc[r] = "done")
        => {"booking_confirmed", "selected_doctor_object", "user_name", "dob"}
               \subseteq response[r].nulls

\* C9: a booking-confirmation turn that has its three inputs and a date of
\* birth that cannot be normalised ends at once: it replies with the request
\* for the MM/DD/YYYY format, and neither find_user_email nor
\* book_appointment is called, so it writes nothing.
C9_BadDateShortCircuits ==
    \A r \in Reqs :
        LET p == session_params[r]
        IN  (/\ path[r] = "booking"
             /\ p.selected_doctor_object # NoCandidate
             /\ p.user_name # NoName
             /\ p.dob \in {BadDob, NoSuchDayDob, BadDictDob})
            => /\ pc[r] = "done"
               /\ response[r] = ReplyOnly("dob_format")
               /\ calls[r] = <<"dob">>
               /\ user_email[r] = None
               /\ book_state[r] = NoCall

\* The turn with the date 02/30/1990 has replied.
C9_Witness ==
    /\ path["r1"] = "booking" /\ pc["r1"] = "done"
    /\ session_params["r1"].dob = NoSuchDayDob
    /\ response["r1"].text = "dob_format"

\* C10: after book_appointment returned True and send_confirmation_email
\* returned False, the slot is booked and has its booking record, and the
\* reply chosen is the one of a booking whose notification failed.
C10_FailedNotificationKeepsBooking ==
    \A r \in Reqs :
        (/\ appointment_booked[r]
         /\ "notify" \in { calls[r][i] : i \in DOMAIN calls[r] }
         /\ ~email_sent[r])
        => LET id == session_params[r].selected_doctor_object.id
           IN  /\ is_booked[id]
               /\ Cardinality(RecordsOf(id)) = 1
               /\ response_text[r] = "booked_notification_failed"
               /\ (pc[r] = "done" /\ response[r].status = 200)
                      => response[r].text = "booked_notification_failed"

\* A turn booked, failed to notify and replied that the booking stands.
C10_Witness ==
    \E r \in Reqs :
        /\ appointment_booked[r] /\ ~email_sent[r]
        /\ calls[r] = <<"dob", "lookup", "book", "notify">>
        /\ pc[r] = "done"
        /\ response[r].text = "booked_notification_failed"
        /\ is_booked[session_params[r].selected_doctor_object.id]

\* C11: a booking-confirmation turn whose candidate refers to a slot that is
\* already booked creates no booking record, replies that the appointment
\* time is no longer available, and is not answered with the generic apology
\* or an error status.
C11_ConflictRecoveredLocally ==
    \A r \in Reqs :
        (/\ path[r] = "booking" /\ pc[r] = "done"
         /\ book_state[r].outcome = "already_booked")
        => /\ book_state[r].writes = 0
           /\ response[r].status = 200
           /\ response[r].text = "no_longer_available"

\* C12: every turn is answered with status 200; the answer to a turn that
\* hit an internal fault is the generic apology with status 200 and without
\* an update of the session parameters.
C12_AlwaysStatus200 ==
    \A r \in Reqs :
        pc[r] = "done"
        => /\ response[r].status = 200
           /\ response[r].text = "generic_apology"
                 => response[r].nulls = {} /\ response[r].values = <<>>

\* C13: a triage turn whose duration is present and is no number, with no
\* emergency keyword in the symptoms, is answered with a clarifying reply and
\* not with the generic apology; a missing or zero duration gives self_care.
C13_BadDurationClarified ==
    \A r \in Reqs :
        (path[r] = "triage" /\ pc[r] = "done" /\ symptom_result[r] # "emergency")
        => LET d == session_params[r].symptom_duration_days
           IN  /\ d.kind # "int"
                     => /\ response[r].status = 200
                        /\ response[r].text # "generic_apology"
               /\ (d.kind = "int" /\ d.n = 0) => symptom_result[r] = "self_care"

\* C14: for every symptom list and every integer duration d the triage
\* result is emergency if the joined, lowercased symptom text contains an
\* emergency keyword, whatever d is; otherwise specialist if d >= 14, gp if
\* 3 <= d < 14 and self_care if d < 3; it is one of these four values.
C14_TriageMatchesReference ==
    \A r \in Reqs :
        (/\ path[r] = "triage" /\ symptom_result[r] # None
         /\ session_params[r].symptom_duration_days.kind = "int")
        => LET text == LowerText(Join(session_params[r].symptoms_list))
               emergency ==
                   \E k \in { <<"emergency">>, <<"severe", "breathing">>, <<"unconscious">> } :
                       Contains(text, k)
               d == session_params[r].symptom_duration_days.n
               result == symptom_result[r]
           IN  /\ result \in {"emergency", "specialist", "gp", "self_care"}
               /\ emergency => result = "emergency"
               /\ (~emergency /\ d >= 14) => result = "specialist"
               /\ (~emergency /\ 3 <= d /\ d < 14) => result = "gp"
               /\ (~emergency /\ d < 3) => result = "self_care"

\* A turn whose keyword is formed by the join, with a duration of 14 days,
\* was classified emergency.
C14_Witness ==
    /\ pc["r1"] = "done"
    /\ session_params["r1"].symptoms_list = << <<"severe">>, <<"breathing">> >>
    /\ session_params["r1"].symptom_duration_days = Duration("int", 14)
    /\ symptom_result["r1"] = "emergency"
    /\ response["r1"].values.symptom_result = "emergency"

\* C15 as stated: when get_available_doctors returns its list, every
\* candidate of the list refers to a slot that is unbooked in the store at
\* that moment, also when other requests book concurrently.
C15_NoBookedCandidateReturned ==
    [][ \A r \in Reqs :
          (pc[r] \in {"weekend_query", "any_day_query"} /\ pc'[r] = "triage_respond")
          => \A i \in DOMAIN resolver'[r].available_doctors :
                 ~is_booked'[resolver'[r].available_doctors[i].id]
      ]_vars

\* C15 as amended: a candidate enters the list only by a query of the
\* resolver, and the slot it refers to is unbooked in the store when that
\* query reads it; the candidates already in the list stay as they are.
C15_CandidateUnbookedWhenRead ==
    [][ \A r \in Reqs :
          LET old == resolver[r].available_doctors
              new == resolver'[r].available_doctors
          IN  Len(new) > Len(old)
              => /\ pc[r] \in {"weekend_query", "any_day_query"}
                 /\ new = Append(old, new[Len(new)])
                 /\ new[Len(new)].id \in SlotIds
                 /\ ~is_booked[new[Len(new)].id]
                 /\ ~is_booked'[new[Len(new)].id]
      ]_vars

\* The resolver has returned a list with the candidate of s1, which another
\* request booked after the query for its doctor.
C15_Witness ==
    /\ pc["r1"] = "triage_respond"
    /\ resolver["r1"].available_doctors = <<AppointmentData("s1")>>
    /\ is_booked["s1"]

\* Midnight of the Saturday that is today or comes next.
UpcomingSaturday(now) ==
    CHOOSE t \in { Midnight(now) + k * 24 : k \in 0..6 } : Weekday(t) = 5

\* C16: for the doctor at hand, if an unbooked slot lies in the window of
\* the upcoming Saturday and Sunday, the candidate is the earliest unbooked
\* slot of the window and the 30-day query is not run, even if an earlier
\* unbooked slot lies before the weekend; the earliest unbooked slot
\* strictly between now and now + 30 days is taken only when the window has
\* none; a doctor with no slot from either query is left out.  (A query that
\* fails makes the resolver return the empty list.)
C16_PhaseOneShortCircuits ==
    [][ \A r \in Reqs :
          LET rs == resolver[r]
              doctor == Head(rs.doctors)
              saturday == UpcomingSaturday(rs.now)
              open == { s \in SlotIds : SlotDoctor(s) = doctor /\ ~is_booked[s] }
              window == { s \in open : saturday <= SlotTime(s) /\ SlotTime(s) < saturday + 48 }
              fallback == { s \in open : rs.now < SlotTime(s) /\ SlotTime(s) < rs.now + 30 * 24 }
              old == rs.available_doctors
              new == resolver'[r].available_doctors
              failed == resolver'[r].doctors = <<>> /\ new = <<>>
              Picked(slots) ==
                  \E s \in slots :
                      /\ \A o \in slots : SlotTime(s) <= SlotTime(o)
                      /\ new = Append(old, Candidate(s, DoctorName(doctor),
                                                     TimeObject(SlotTime(s))))
                      /\ resolver'[r].doctors = Tail(rs.doctors)
          IN  /\ (pc[r] = "weekend_query" /\ pc'[r] # pc[r])
                    => \/ failed
                       \/ IF window # {}
                          THEN pc'[r] # "any_day_query" /\ Picked(window)
                          ELSE pc'[r] = "any_day_query" /\ resolver'[r] = rs
              /\ (pc[r] = "any_day_query" /\ pc'[r] # pc[r])
                    => \/ failed
                       \/ IF fallback # {}
                          THEN Picked(fallback)
                          ELSE new = old /\ resolver'[r].doctors = Tail(rs.doctors)
      ]_vars

\* On the Wednesday the resolver took the Saturday slot s1 of doctor d1
\* while the Thursday slot s2 was unbooked.
C16_Witness ==
    /\ resolver["r1"].now = 57
    /\ resolver["r1"].available_doctors = <<AppointmentData("s1")>>
    /\ ~is_booked["s2"]
    /\ pc["r1"] = "triage_respond"

\* The candidate an insurance-check turn resolved the choice to.
Resolved(r) ==
    IF response[r].text = "doctor_not_found" THEN NoCandidate
    ELSE response[r].values.selected_doctor_object

\* C17: the doctor-choice resolver returns 'not found' or an element of the
\* candidate list.  If the lowercased choice holds one of the words first ..
\* fifth, the result is the candidate at the 0-based index of the first such
\* word of that series, or a miss when the list is shorter.  Otherwise a hit
\* needs a "dr" in the choice and words of the choice in the candidate's
\* name, compared without case.  With the list [A, B, C]: "second one" gives
\* B, "Dr. Smith" gives B, named "Dr. John Smith", and "tenth" is a miss.
C17_ChoiceResolvesToListElement ==
    \A r \in Reqs :
        (path[r] = "insurance" /\ pc[r] = "done")
        => LET list == session_params[r].doctor_info_list
               choice == session_params[r].selected_doctor_name
               words == { Lower(choice[j]) : j \in DOMAIN choice }
               ordinals == <<"first", "second", "third", "fourth", "fifth">>
               hits == { i \in 1..5 : ordinals[i] \in words }
               result == Resolved(r)
           IN  /\ result = NoCandidate \/ \E i \in DOMAIN list : result = list[i]
               /\ hits # {}
                     => \E i \in hits :
                          /\ \A o \in hits : i <= o
                          /\ result = IF i <= Len(list) THEN list[i] ELSE NoCandidate
               /\ (hits = {} /\ result # NoCandidate)
                     => /\ words \cap {"dr", "dr."} # {}
                        /\ \E j \in DOMAIN result.name : Lower(result.name[j]) \in words
               /\ (hits = {} /\ words \cap {"dr", "dr."} = {}) => result = NoCandidate
               /\ list = <<CandA, CandB, CandC>>
                     => /\ choice = <<"second", "one">> => result = CandB
                        /\ choice = <<"Dr.", "Smith">> => result = CandB
                        /\ choice = <<"tenth">> => result = NoCandidate

\* "Dr. Smith" was resolved to the second of three candidates.
C17_Witness ==
    /\ path["r1"] = "insurance" /\ pc["r1"] = "done"
    /\ session_params["r1"].doctor_info_list = <<CandA, CandB, CandC>>
    /\ session_params["r1"].selected_doctor_name = <<"Dr.", "Smith">>
    /\ response["r1"].values.selected_doctor_object = CandB

\* C18: an insurance-check turn whose choice resolves to no candidate sends
\* the clarifying reply only: the response updates no session parameter,
\* check_insurance_and_cost is not run and the store is as it was.
C18_MissLeavesSessionAlone ==
    [][ \A r \in Reqs :
          LET p == session_params'[r]
          IN  (/\ StepOf(r) /\ path'[r] = "insurance"
               /\ get_doctor_from_choice(p.doctor_info_list, p.selected_doctor_name)
                      = NoCandidate)
              => /\ pc'[r] = "done"
                 /\ response'[r].status = 200
                 /\ response'[r].text = "doctor_not_found"
                 /\ response'[r].nulls = {} /\ response'[r].values = <<>>
                 /\ calls'[r] = <<"choice">>
                 /\ status'[r] = None
                 /\ store' = store
      ]_vars

\* A turn with the choice "tenth" was answered with the clarifying reply
\* while a slot was booked.
C18_Witness ==
    /\ path["r1"] = "insurance" /\ pc["r1"] = "done"
    /\ session_params["r1"].selected_doctor_name = <<"tenth">>
    /\ response["r1"].text = "doctor_not_found"
    /\ is_booked["s1"]

\* C19: in an insurance-check turn whose choice resolved to a candidate the
\* final_status sent is covered exactly when the lookup did not fail, the
\* store holds a doctor of the candidate's name and the provider is among
\* the insurances that doctor accepts; it is not_covered in every other
\* case, and no other value is sent.
C19_CoveredIffAccepted ==
    \A r \in Reqs :
        (path[r] = "insurance" /\ pc[r] = "done" /\ Resolved(r) # NoCandidate)
        => LET named == { i \in DOMAIN Doctors : DoctorName(Doctors[i]) = Resolved(r).name }
               failed == status[r] = "An error occurred while checking insurance."
               accepted == \E i \in named :
                              /\ \A j \in named : i <= j
                              /\ session_params[r].insurance_provider
                                     \in AcceptedInsurances(Doctors[i])
               final_status == response[r].values.final_status
           IN  /\ final_status \in {"covered", "not_covered"}
               /\ final_status = "covered" <=> (~failed /\ accepted)
               /\ (~failed /\ named = {})
                     => status[r] = "Sorry, I can't find information for that doctor."

\* A turn found the provider among the insurances of the doctor chosen.
C19_Witness ==
    /\ path["r1"] = "insurance" /\ pc["r1"] = "done"
    /\ response["r1"].values.selected_doctor_object = CandA
    /\ session_params["r1"].insurance_provider = "acme"
    /\ response["r1"].values.final_status = "covered"

\* C20: every booking record links the patient to the slot that was claimed:
\* a record is created by appending it to the records there are, which stay
\* as they are, and what it stores (the doctor and the time of the slot)
\* identifies the slot whose flag the same call set.
C20_RecordLinksClaimedSlot ==
    [][ appointments' # appointments
        => /\ Len(appointments') = Len(appointments) + 1
           /\ SubSeq(appointments', 1, Len(appointments)) = appointments
           /\ LET rec == appointments'[Len(appointments')]
                  told == { s \in SlotIds :
                              /\ DoctorName(SlotDoctor(s)) = rec.doctor_name
                              /\ TimeString(SlotTime(s)) = rec.time_slot }
              IN  told = {rec.by_slot} /\ is_booked'[rec.by_slot]
      ]_vars

\* C21: after a booking-confirmation turn in which book_appointment was
\* called and has returned, True or False, the session parameters that
\* result from the update of the response hold no Slot Candidate: neither
\* the selected candidate nor the candidate list, so the next turn is a
\* triage turn.
C21_CandidatesDiscarded ==
    \A r \in Reqs :
        (path[r] = "booking" /\ pc[r] = "done" /\ Returned(r))
        => LET after == SessionAfter(session_params[r], response[r])
           IN  /\ after.selected_doctor_object = NoCandidate
               /\ after.doctor_info_list = <<>>
               /\ Route(after) = "triage"

\* C22: a booking-confirmation turn in which book_appointment returned True
\* is answered with status 200, with one of the two replies of a booking
\* that was made and with the update that clears the booking fields, also
\* when the candidate's time_slot came back from the caller as a string.
C22_SuccessGetsConfirmation ==
    \A r \in Reqs :
        (path[r] = "booking" /\ pc[r] = "done" /\ appointment_booked[r])
        => /\ response[r].status = 200
           /\ response[r].text \in {"booked_and_confirmed", "booked_notification_failed"}
           /\ {"booking_confirmed", "selected_doctor_object", "user_name", "dob"}
                  \subseteq response[r].nulls

\* C23: in a booking-confirmation turn the steps run in the order date of
\* birth normalisation, find_user_email, book_appointment,
\* send_confirmation_email, none without the one before it:
\* find_user_email runs on a normalised date only, book_appointment is
\* called and writes only if find_user_email returned an address in this
\* turn, and send_confirmation_email is called only if book_appointment
\* returned True in this turn.  So every booking record is the record of a
\* patient of the store, with that patient's address.
C23_StepsGatedInOrder ==
    /\ \A r \in Reqs :
          path[r] = "booking" =>
              LET order == <<"dob", "lookup", "book", "notify">>
                  ran == { calls[r][i] : i \in DOMAIN calls[r] }
              IN  /\ Len(calls[r]) <= Len(order)
                  /\ calls[r] = SubSeq(order, 1, Len(calls[r]))
                  /\ "lookup" \in ran => formatted_dob[r] # NoDate
                  /\ "book" \in ran => user_email[r] # None
                  /\ book_state[r] # NoCall => "book" \in ran
                  /\ book_state[r].writes > 0 => user_email[r] # None
                  /\ pc[r] \in {"book_get", "book_transaction", "book_add"}
                        => user_email[r] # None
                  /\ ("notify" \in ran \/ pc[r] = "notify") => appointment_booked[r]
                  /\ email_sent[r] => appointment_booked[r]
    /\ \A i \in DOMAIN appointments :
          \E pt \in Patients :
              /\ appointments[i].patient_email = pt.email
              /\ appointments[i].patient_name = <<pt.firstName>> \o pt.lastName

\* One turn went through all four steps and booked; the turn of a patient
\* the store does not hold ended after find_user_email.
C23_Witness ==
    /\ calls["r2"] = <<"dob", "lookup", "book", "notify">>
    /\ appointment_booked["r2"] /\ user_email["r2"] = "ann@mail"
    /\ Len(appointments) = 1
    /\ path["r1"] = "booking" /\ pc["r1"] = "done"
    /\ session_params["r1"].user_name = Zed
    /\ calls["r1"] = <<"dob", "lookup">>
    /\ book_state["r1"] = NoCall
    /\ response_text["r1"] = "patient_not_found"

\* C24: in the session that sends back what it was sent (triage, insurance
\* checks, booking confirmation), the candidate list of the insurance-check
\* turn is the list that get_available_doctors returned in the triage turn,
\* as it was sent out, and it stays that list; the candidate an
\* insurance-check turn stores is an element of it, unchanged; the candidate
\* of the booking turn is the one stored last; and a slot whose flag a step of
\* the session changes is the slot of that candidate's id, the slot whose
\* doctor and time the candidate shows.
C24_IdentityKeptAcrossTurns ==
    [][ LET r == "r1"
            old == session_params[r]
            new == session_params'[r]
            Elements(list) == { list[i] : i \in DOMAIN list }
            next_turn == pc[r] = "done" /\ (StepOf(r) \/ new # old)
        IN  /\ (path[r] = "triage" /\ path'[r] = "insurance")
                  => new.doctor_info_list = SerializeList(resolver[r].available_doctors)
            /\ (next_turn /\ path[r] = "insurance")
                  => /\ new.doctor_info_list = old.doctor_info_list
                     /\ new.selected_doctor_object =
                            IF Resolved(r) # NoCandidate THEN Resolved(r)
                            ELSE old.selected_doctor_object
            /\ (path'[r] = "insurance" /\ response'[r].text # "doctor_not_found")
                  => /\ response'[r].values.selected_doctor_object
                            \in Elements(new.doctor_info_list)
                     /\ response'[r].values.doctor_info_list = new.doctor_info_list
            /\ path'[r] \in {"insurance", "booking"}
                  => new.selected_doctor_object
                         \in Elements(new.doctor_info_list) \cup {NoCandidate}
            /\ \A s \in SlotIds :
                  (is_booked'[s] # is_booked[s] /\ pc'[r] # pc[r])
                  => /\ path[r] = "booking"
                     /\ old.selected_doctor_object \in Elements(old.doctor_info_list)
                     /\ old.selected_doctor_object.id = s
                     /\ old.selected_doctor_object = Snapshot(s)
      ]_vars

\* The session was offered s1 and s6 on the Saturday, chose "Dr. Smith" and
\* booked s6, the slot of that candidate.
C24_Witness ==
    /\ path["r1"] = "booking" /\ appointment_booked["r1"]
    /\ session_params["r1"].doctor_info_list = <<Snapshot("s1"), Snapshot("s6")>>
    /\ session_params["r1"].selected_doctor_name = <<"Dr.", "Smith">>
    /\ session_params["r1"].selected_doctor_object = Snapshot("s6")
    /\ is_booked["s6"] /\ ~is_booked["s1"]

\* C25: every candidate that get_available_doctors takes into its list has
\* a slot start strictly later than the time now at which the resolver ran,
\* on every weekday, a Saturday included, where the weekend window starts at
\* the midnight before now.
C25_NoPastCandidate ==
    \A r \in Reqs :
        \A i \in DOMAIN resolver[r].available_doctors :
            resolver[r].available_doctors[i].time_slot.t > resolver[r].now

====
